---- MODULE Spec2Model ----
(***************************************************************************)
(* Model of the RM_service ebook ingestion pipeline:                       *)
(*   src/utils/ebook_handler.py  EBookHandler (extractor, embedder, page   *)
(*                               store writer, PDF ingestion, EPUB         *)
(*                               embedding backfill)                       *)
(*   src/api/index.py            parse_ebook, process_ebook_async (job     *)
(*                               runner and webhook), process_section_     *)
(*                               summary                                   *)
(*                                                                         *)
(* Strings are modelled by their shape: [src, lead, core, trail] is a      *)
(* string with `lead` whitespace characters, then `core` characters that   *)
(* start and end with a non-whitespace character, then `trail` whitespace  *)
(* characters; `src` names where the characters came from, so that two     *)
(* strings from different producers are different strings.                 *)
(***************************************************************************)
EXTENDS Integers, Sequences, FiniteSets, TLC

\* ------------------------------------------------------------------ bounds

\* Largest number of pages a downloaded PDF has.
MaxPages == 2
\* Largest page_count cap a request carries.
MaxCap == 2
\* Largest number of page records in the store before any job runs.
MaxStored == 2

\* The worker threads (one per accepted request): one job running alone, and
\* two jobs running side by side.
Jobs == {"w"}
ConcJobs == {"a", "b"}
AllJobs == Jobs \cup ConcJobs
\* The book ids requests name.
Books == {"b1", "b2"}

\* ------------------------------------------------------------------ strings

\* The length a trimmed text-layer string must exceed to be taken as is.
MinTextLen == 50

\* str(src, lead, core, trail)
Str(s, l, c, t) == [src |-> s, lead |-> l, core |-> c, trail |-> t]

\* Python's "" and None.
EmptyStr == Str("", 0, 0, 0)
None == Str("None", 0, 0, 0)

\* len(s)
StrLen(s) == s.lead + s.core + s.trail

\* bool(s): None and "" are falsy.
Truthy(s) == s # None /\ StrLen(s) > 0

\* s.strip(): drops leading and trailing whitespace.
Strip(s) == IF s.core = 0 THEN EmptyStr ELSE Str(s.src, 0, s.core, 0)

\* What page.extract_text() can return for a page.
LayerTexts ==
    { None, EmptyStr,
      Str("layer", 2, 0, 0),
      Str("layer", 1, MinTextLen, 1),
      Str("layer", 1, MinTextLen + 1, 1) }

\* What pytesseract.image_to_string() can return for a page image.
OcrTexts == { EmptyStr, Str("ocr", 1, 0, 0), Str("ocr", 1, 4, 1) }

\* What the Gemini response's .text can be.
VisionTexts == { None, EmptyStr, Str("vision", 1, 0, 0), Str("vision", 1, 5, 1) }

\* What the book_pages.text column holds for records stored by the EPUB
\* import: a chapter's text, or one of the texts without content.
StoredText == Str("epub", 0, 6, 1)
BlankTexts == { None, EmptyStr, Str("epub", 1, 0, 0) }

\* An external call either raises or returns a value.
Raised == [err |-> TRUE, val |-> None]
Returned(v) == [err |-> FALSE, val |-> v]
Outcomes(S) == {Raised} \cup {Returned(v) : v \in S}

\* convert_from_path: raises, returns [] or returns [image].
RasterOutcomes == {"raise", "empty", "image"}

\* ------------------------------------------------------------------ extractor

\* A plausible slip: the length test on the untrimmed string.
is_meaningful_untrimmed(text) == Truthy(text) /\ StrLen(text) > MinTextLen

\* `if text and len(text.strip()) > 50`: the text layer is good enough.
is_meaningful(text) == Truthy(text) /\ StrLen(Strip(text)) > MinTextLen

\* A plausible slip: whatever OCR returns replaces the text.
ocr_has_text_always(ocr_text) == TRUE

\* `if ocr_text and len(ocr_text.strip()) > 0`: OCR read something.
ocr_has_text(ocr_text) == Truthy(ocr_text) /\ StrLen(Strip(ocr_text)) > 0

\* process_pdf_page: text layer first, local OCR when the text layer is poor.
\* layer, ocr: outcomes of page.extract_text() and image_to_string();
\* raster: outcome of convert_from_path.
process_pdf_page(layer, raster, ocr) ==
    LET text1    == IF layer.err \/ ~Truthy(layer.val) THEN EmptyStr ELSE layer.val
        good     == ~layer.err /\ is_meaningful(text1)
        ocr_runs == raster = "image"
        ocr_ok   == ocr_runs /\ ~ocr.err /\ ocr_has_text(ocr.val)
        text2    == IF ocr_ok THEN ocr.val ELSE text1
    IN  IF good
        THEN [text |-> text1, raster_calls |-> 0, ocr_calls |-> 0]
        ELSE [text |-> Strip(text2),
              raster_calls |-> 1,
              ocr_calls |-> IF ocr_runs THEN 1 ELSE 0]

\* convert_page_to_image: the image, or None when conversion raises or is empty.
convert_page_to_image(raster) == raster = "image"

\* image_to_text_gemini: response.text, or None when empty or when it raises.
image_to_text_gemini(vision) ==
    IF vision.err \/ ~Truthy(vision.val) THEN None ELSE vision.val

\* process_pdf_page_with_gemini: rasterize, then ask the vision model.
process_pdf_page_with_gemini(raster, vision) ==
    LET image == convert_page_to_image(raster)
        text  == IF image THEN image_to_text_gemini(vision) ELSE None
    IN  [text |-> IF image /\ Truthy(text) THEN Strip(text) ELSE EmptyStr,
         raster_calls |-> 1,
         ocr_calls |-> 0]

\* Every text a call of process_pdf_page can return, over all the answers of
\* the PDF library, the rasterizer and tesseract, raising included; and the
\* same for process_pdf_page_with_gemini.
LocalResults ==
    { process_pdf_page(layer, raster, ocr).text :
        layer \in Outcomes(LayerTexts), raster \in RasterOutcomes, ocr \in Outcomes(OcrTexts) }

GeminiResults ==
    { process_pdf_page_with_gemini(raster, vision).text :
        raster \in RasterOutcomes, vision \in Outcomes(VisionTexts) }

\* ------------------------------------------------------------------ embedder

\* The embedding provider either raises or answers.
EmbedOutcomes == {"raise", "ok"}

\* generate_embedding: the provider's vector, or None when the call raises.
generate_embedding(outcome, use_gemini) ==
    IF outcome = "raise" THEN "NULL"
    ELSE IF use_gemini THEN "gemini_vec" ELSE "openai_vec"

\* ------------------------------------------------------------------ state

VARIABLES
    pc,      \* pc[j]: where worker j stands
    req,     \* req[j]: the arguments parse_ebook handed to the worker
    store,   \* the book_pages table: a sequence of records, id = position
    pdf,     \* pdf[j]: locals of process_pdf and what it did so far
    epub,    \* epub[j]: locals of process_epub_from_supabase and what it did
    run,     \* run[j]: locals of process_ebook_async and its webhook calls
    ex       \* one isolated call of the page extractor (SpecExtract)

vars == <<pc, req, store, pdf, epub, run, ex>>

NoReq == [book_id |-> "", ebook_url |-> "", page_count |-> 0, use_gemini |-> FALSE,
          file_type |-> "", callback_url |-> ""]

NoPage == [page_num |-> -1, text |-> None, embed_requested |-> FALSE,
           insert_requested |-> FALSE, insert_ok |-> FALSE]

PdfInit == [temp_file |-> FALSE, src_pages |-> -1, total_pages |-> 0, page_num |-> 0,
            attempts |-> <<>>, last |-> NoPage]

EpubInit == [data |-> <<>>, idx |-> 1, processed_pages |-> 0,
             embed_calls |-> <<>>, updates |-> <<>>, update_failed |-> FALSE]

NoResult == [success |-> FALSE, pageCount |-> -1]

RunInit == [result |-> NoResult, message |-> <<>>, exc |-> "", summary |-> "",
            posts |-> <<>>, escaped |-> FALSE]

ExIdle == [phase |-> "idle", use_gemini |-> FALSE, layer |-> Raised, raster |-> "raise",
           ocr |-> Raised, vision |-> Raised,
           out |-> [text |-> None, raster_calls |-> 0, ocr_calls |-> 0]]

\* A page record of the book_pages table.
Record(id, book_id, page_number, text, embedding) ==
    [id |-> id, book_id |-> book_id, page_number |-> page_number,
     text |-> text, embedding |-> embedding]

\* The tables an earlier EPUB import can have left: up to MaxStored records of
\* book b1, numbered from 1, without embeddings, all with text or with one
\* record (the k-th) without content.
InitialStores ==
    UNION { { [i \in 1..n |-> Record(i, "b1", i, IF i = k THEN b ELSE StoredText, "NULL")] :
                k \in 0..n, b \in BlankTexts }
            : n \in 0..MaxStored }

Init ==
    /\ pc = [j \in AllJobs |-> "idle"]
    /\ req = [j \in AllJobs |-> NoReq]
    /\ store \in InitialStores
    /\ pdf = [j \in AllJobs |-> PdfInit]
    /\ epub = [j \in AllJobs |-> EpubInit]
    /\ run = [j \in AllJobs |-> RunInit]
    /\ ex = ExIdle

Min(a, b) == IF a < b THEN a ELSE b

\* ------------------------------------------------------------------ parse_ebook

\* The request bodies of POST /parse-ebook. A job running alone is given any
\* of them; the two jobs running side by side are given the requests that
\* make them meet in the store: the same book, one page at most.
AllRequests ==
    [book_id : Books \cup {""}, ebook_url : {"src"}, page_count : 0..MaxCap,
     use_gemini : BOOLEAN, file_type : {"pdf", "epub"}, callback_url : {"", "url"}]

ConcRequests ==
    [book_id : {"b1"}, ebook_url : {"src"}, page_count : {1},
     use_gemini : {TRUE}, file_type : {"pdf", "epub"}, callback_url : {""}]

Requests(j) == IF j \in ConcJobs THEN ConcRequests ELSE AllRequests

\* POST /parse-ebook after authentication: 400 without a book_id, otherwise a
\* worker thread is started with the request's arguments and 202 is returned.
parse_ebook(j) ==
    /\ pc[j] = "idle"
    /\ \E data \in Requests(j) :
          IF data.book_id = ""
          THEN /\ pc' = [pc EXCEPT ![j] = "rejected"]
               /\ req' = req
          ELSE /\ pc' = [pc EXCEPT ![j] = "started"]
               /\ req' = [req EXCEPT ![j] = data]
    /\ UNCHANGED <<store, pdf, epub, run, ex>>

\* process_ebook_async entry: choose the ingestion procedure by file_type.
process_ebook_async(j) ==
    /\ pc[j] = "started"
    /\ pc' = [pc EXCEPT ![j] = IF req[j].file_type = "epub" THEN "process_epub" ELSE "process_pdf"]
    /\ UNCHANGED <<req, store, pdf, epub, run, ex>>

\* An exception reaches process_ebook_async's handler with its message.
Raise(j, msg) ==
    /\ pc' = [pc EXCEPT ![j] = "except"]
    /\ run' = [run EXCEPT ![j].exc = msg]

\* ------------------------------------------------------------------ process_pdf

\* A plausible slip: the cap is ignored.
total_pages_uncapped(n_pages, page_count) == n_pages

\* total_pages = min(len(pdf.pages), page_count)
total_pages_of(n_pages, page_count) == Min(n_pages, page_count)

\* process_pdf up to the loop: download_file, pdfplumber.open, total_pages.
process_pdf_open(j) ==
    /\ pc[j] = "process_pdf"
    /\ \E download \in {"raise", "ok"}, open \in {"raise", "ok"}, n \in 0..MaxPages :
          IF download = "raise"
          THEN /\ Raise(j, "download failed")
               /\ pdf' = pdf
          ELSE IF open = "raise"
          THEN /\ Raise(j, "open failed")
               /\ pdf' = [pdf EXCEPT ![j].temp_file = TRUE]
          ELSE /\ pc' = [pc EXCEPT ![j] = "pdf_loop"]
               /\ run' = run
               /\ pdf' = [pdf EXCEPT ![j].temp_file = TRUE,
                                     ![j].src_pages = n,
                                     ![j].total_pages = total_pages_of(n, req[j].page_count)]
    /\ UNCHANGED <<req, store, epub, ex>>

\* A plausible slip: every page is stored, blank or not.
is_nonblank_always(text) == TRUE

\* `if text.strip()`: only non-empty pages are embedded and stored.
is_nonblank(text) == Truthy(Strip(text))

\* A plausible slip: an upsert on (book_id, page_number) instead of an insert.
write_to_supabase_upsert(table, page_data, outcome) ==
    IF outcome = "raise" THEN table
    ELSE IF \E i \in 1..Len(table) : /\ table[i].book_id = page_data.book_id
                                      /\ table[i].page_number = page_data.page_number
    THEN [i \in 1..Len(table) |->
            IF table[i].book_id = page_data.book_id /\ table[i].page_number = page_data.page_number
            THEN [table[i] EXCEPT !.text = page_data.text, !.embedding = page_data.embedding]
            ELSE table[i]]
    ELSE Append(table, [id |-> Len(table) + 1, book_id |-> page_data.book_id,
                        page_number |-> page_data.page_number, text |-> page_data.text,
                        embedding |-> page_data.embedding])

\* write_to_supabase: insert one record; a failing insert is logged only.
write_to_supabase(table, page_data, outcome) ==
    IF outcome = "raise" THEN table
    ELSE Append(table, Record(Len(table) + 1, page_data.book_id, page_data.page_number,
                              page_data.text, page_data.embedding))

\* One iteration of process_pdf's page loop: extract, and when the text is
\* non-blank embed it and insert the record.
process_pdf_iter(j) ==
    /\ pc[j] = "pdf_loop"
    /\ pdf[j].page_num < pdf[j].total_pages
    /\ \E text \in (IF req[j].use_gemini THEN GeminiResults ELSE LocalResults),
          emb \in EmbedOutcomes, write \in {"raise", "ok"} :
          LET page_num  == pdf[j].page_num
              nonblank  == is_nonblank(text)
              embedding == generate_embedding(emb, FALSE)
              page_data == [book_id |-> req[j].book_id, page_number |-> page_num + 1,
                            text |-> text, embedding |-> embedding]
          IN  /\ store' = IF nonblank THEN write_to_supabase(store, page_data, write) ELSE store
              /\ pdf' = [pdf EXCEPT
                           ![j].page_num = page_num + 1,
                           ![j].attempts = Append(@, page_num),
                           ![j].last = [page_num |-> page_num, text |-> text,
                                        embed_requested |-> nonblank,
                                        insert_requested |-> nonblank,
                                        insert_ok |-> nonblank /\ write = "ok"]]
    /\ UNCHANGED <<pc, req, epub, run, ex>>

\* After the loop: os.unlink, then the result with pageCount = total_pages.
process_pdf_return(j) ==
    /\ pc[j] = "pdf_loop"
    /\ pdf[j].page_num >= pdf[j].total_pages
    /\ pdf' = [pdf EXCEPT ![j].temp_file = FALSE]
    /\ run' = [run EXCEPT
                 ![j].result = [success |-> TRUE, pageCount |-> pdf[j].total_pages],
                 ![j].message = <<"Ebook processing completed successfully">>]
    /\ pc' = [pc EXCEPT ![j] = "summary"]
    /\ UNCHANGED <<req, store, epub, ex>>

\* ------------------------------------------------------------------ process_epub_from_supabase

\* A plausible slip: the text is not trimmed before the test.
has_text_untrimmed(text) == Truthy(text)

\* `if text and text.strip()`: the record has text worth embedding.
has_text(text) == Truthy(text) /\ Truthy(Strip(text))

\* select('id, page_number, text').eq('book_id', book_id) on a table.
select_pages(table, book_id) ==
    LET rows == SelectSeq(table, LAMBDA r : r.book_id = book_id)
    IN  [i \in 1..Len(rows) |->
            [id |-> rows[i].id, page_number |-> rows[i].page_number, text |-> rows[i].text]]

\* update({"embedding": embedding}).eq('id', page_id) on a table.
update_embedding(table, page_id, embedding) ==
    [table EXCEPT ![page_id].embedding = embedding]

\* process_epub_from_supabase up to the loop: fetch the book's records; a book
\* without records returns at once with success False and pageCount 0.
process_epub_select(j) ==
    /\ pc[j] = "process_epub"
    /\ \E select \in {"raise", "ok"} :
          LET data == select_pages(store, req[j].book_id)
          IN  IF select = "raise"
              THEN /\ Raise(j, "select failed")
                   /\ epub' = epub
              ELSE IF Len(data) = 0
              THEN /\ pc' = [pc EXCEPT ![j] = "summary"]
                   /\ run' = [run EXCEPT
                                ![j].result = [success |-> FALSE, pageCount |-> 0],
                                ![j].message = <<"Ebook embedding generation completed successfully">>]
                   /\ epub' = epub
              ELSE /\ pc' = [pc EXCEPT ![j] = "epub_loop"]
                   /\ run' = run
                   /\ epub' = [epub EXCEPT ![j].data = data]
    /\ UNCHANGED <<req, store, pdf, ex>>

\* One iteration of the backfill loop: embed a record that has text and
\* update it in place; an update that raises leaves the procedure.
process_epub_iter(j) ==
    /\ pc[j] = "epub_loop"
    /\ epub[j].idx <= Len(epub[j].data)
    /\ \E emb \in EmbedOutcomes, update \in {"raise", "ok"} :
          LET page      == epub[j].data[epub[j].idx]
              embedding == generate_embedding(emb, req[j].use_gemini)
          IN  IF ~has_text(page.text)
              THEN /\ epub' = [epub EXCEPT ![j].idx = @ + 1]
                   /\ UNCHANGED <<pc, run, store>>
              ELSE IF update = "raise"
              THEN /\ epub' = [epub EXCEPT ![j].embed_calls = Append(@, page.id),
                                           ![j].update_failed = TRUE]
                   /\ Raise(j, "update failed")
                   /\ store' = store
              ELSE /\ epub' = [epub EXCEPT ![j].idx = @ + 1,
                                           ![j].embed_calls = Append(@, page.id),
                                           ![j].updates = Append(@, page.id),
                                           ![j].processed_pages = @ + 1]
                   /\ store' = update_embedding(store, page.id, embedding)
                   /\ UNCHANGED <<pc, run>>
    /\ UNCHANGED <<req, pdf, ex>>

\* After the loop: the result with pageCount = processed_pages.
process_epub_return(j) ==
    /\ pc[j] = "epub_loop"
    /\ epub[j].idx > Len(epub[j].data)
    /\ run' = [run EXCEPT
                 ![j].result = [success |-> TRUE, pageCount |-> epub[j].processed_pages],
                 ![j].message = <<"Ebook embedding generation completed successfully">>]
    /\ pc' = [pc EXCEPT ![j] = "summary"]
    /\ UNCHANGED <<req, store, pdf, epub, ex>>

\* ------------------------------------------------------------------ job runner

\* How a call of process_section_summary can go: the library query raises,
\* the book is not found, the summaries are generated, or the generation
\* raises ValueError or another exception.
SummaryOutcomes == {"query_raise", "not_found", "ok", "value_error", "exception"}

\* process_section_summary as called by the worker: only a failing library
\* query raises; every other outcome returns a response the worker drops, and
\* the worker appends its summary sentence to the message.
process_section_summary(j) ==
    /\ pc[j] = "summary"
    /\ \E outcome \in SummaryOutcomes :
          IF outcome = "query_raise"
          THEN /\ pc' = [pc EXCEPT ![j] = "except"]
               /\ run' = [run EXCEPT ![j].summary = "raised",
                                     ![j].exc = "library query failed"]
          ELSE /\ pc' = [pc EXCEPT ![j] = "webhook"]
               /\ run' = [run EXCEPT
                            ![j].summary = IF outcome \in {"value_error", "exception"}
                                           THEN "caught" ELSE "returned",
                            ![j].message = Append(@, "Summary generation completed.")]
    /\ UNCHANGED <<req, store, pdf, epub, ex>>

\* How requests.post can go: a response, or a RequestException (timeout,
\* connection error, invalid URL).
PostOutcomes == {"ok", "RequestException"}

\* A plausible slip: the POST's RequestException is not caught where it is
\* sent, so it reaches the job's handler like any other exception.
webhook_unguarded(j) ==
    /\ pc[j] = "webhook"
    /\ \E post \in PostOutcomes :
          /\ run' = [run EXCEPT
                       ![j].posts =
                           IF req[j].callback_url # ""
                           THEN Append(@, [status |-> "completed", message |-> run[j].message,
                                           result |-> run[j].result, delivered |-> post = "ok"])
                           ELSE @,
                       ![j].exc = IF req[j].callback_url # "" /\ post # "ok"
                                  THEN "RequestException" ELSE @]
          /\ pc' = [pc EXCEPT ![j] = IF req[j].callback_url # "" /\ post # "ok"
                                     THEN "except" ELSE "done"]
    /\ UNCHANGED <<req, store, pdf, epub, ex>>

\* The success path's webhook: one POST with status "completed" when a
\* callback URL was given; a RequestException is logged only.
webhook(j) ==
    /\ pc[j] = "webhook"
    /\ \E post \in PostOutcomes :
          run' = [run EXCEPT ![j].posts =
                    IF req[j].callback_url # ""
                    THEN Append(@, [status |-> "completed", message |-> run[j].message,
                                    result |-> run[j].result, delivered |-> post = "ok"])
                    ELSE @]
    /\ pc' = [pc EXCEPT ![j] = "done"]
    /\ UNCHANGED <<req, store, pdf, epub, ex>>

\* The handler of any exception of the job: log it and, when a callback URL
\* was given, POST status "error"; this POST is not guarded, so its failure
\* leaves the worker as an uncaught exception.
except_handler(j) ==
    /\ pc[j] = "except"
    /\ \E post \in PostOutcomes :
          run' = [run EXCEPT
                    ![j].posts =
                        IF req[j].callback_url # ""
                        THEN Append(@, [status |-> "error", message |-> <<run[j].exc>>,
                                        result |-> NoResult, delivered |-> post = "ok"])
                        ELSE @,
                    ![j].escaped = req[j].callback_url # "" /\ post # "ok"]
    /\ pc' = [pc EXCEPT ![j] = "done"]
    /\ UNCHANGED <<req, store, pdf, epub, ex>>

\* ------------------------------------------------------------------ specification

\* One step of worker j.
Worker(j) ==
    \/ process_ebook_async(j)
    \/ process_pdf_open(j)
    \/ process_pdf_iter(j)
    \/ process_pdf_return(j)
    \/ process_epub_select(j)
    \/ process_epub_iter(j)
    \/ process_epub_return(j)
    \/ process_section_summary(j)
    \/ webhook(j)
    \/ except_handler(j)

Next == \E j \in Jobs : parse_ebook(j) \/ Worker(j)

Spec == Init /\ [][Next]_vars

\* The initial states in which every stored record has text, so that a
\* backfill embeds and updates each of them.
InitWithText ==
    /\ pc = [j \in AllJobs |-> "idle"]
    /\ req = [j \in AllJobs |-> NoReq]
    /\ \E n \in 0..MaxStored :
          store = [i \in 1..n |-> Record(i, "b1", i, StoredText, "NULL")]
    /\ pdf = [j \in AllJobs |-> PdfInit]
    /\ epub = [j \in AllJobs |-> EpubInit]
    /\ run = [j \in AllJobs |-> RunInit]
    /\ ex = ExIdle

\* One job under fair scheduling: a started thread keeps being given its
\* steps, and every external call returns or raises.
FairSpec == InitWithText /\ [][Next]_vars /\ \A j \in Jobs : WF_vars(Worker(j))

\* Two jobs on one book, every interleaving of their steps.
NextConcurrent == \E j \in ConcJobs : parse_ebook(j) \/ Worker(j)

SpecConcurrent == InitWithText /\ [][NextConcurrent]_vars

\* ------------------------------------------------------------------ the extractor alone

\* One call of the page extractor on every combination of what the PDF
\* library, the rasterizer, tesseract and the vision model can answer.
InitExtract ==
    /\ pc = [j \in AllJobs |-> "idle"]
    /\ req = [j \in AllJobs |-> NoReq]
    /\ store = <<>>
    /\ pdf = [j \in AllJobs |-> PdfInit]
    /\ epub = [j \in AllJobs |-> EpubInit]
    /\ run = [j \in AllJobs |-> RunInit]
    /\ \E use_gemini \in BOOLEAN, layer \in Outcomes(LayerTexts), raster \in RasterOutcomes,
          ocr \in Outcomes(OcrTexts), vision \in Outcomes(VisionTexts) :
          ex = [ExIdle EXCEPT !.phase = "call", !.use_gemini = use_gemini, !.layer = layer,
                              !.raster = raster, !.ocr = ocr, !.vision = vision]

\* process_pdf's call of process_pdf_page (use_gemini false).
extract_local ==
    /\ ex.phase = "call"
    /\ ~ex.use_gemini
    /\ ex' = [ex EXCEPT !.phase = "returned",
                        !.out = process_pdf_page(ex.layer, ex.raster, ex.ocr)]
    /\ UNCHANGED <<pc, req, store, pdf, epub, run>>

\* process_pdf's call of process_pdf_page_with_gemini (use_gemini true).
extract_gemini ==
    /\ ex.phase = "call"
    /\ ex.use_gemini
    /\ ex' = [ex EXCEPT !.phase = "returned",
                        !.out = process_pdf_page_with_gemini(ex.raster, ex.vision)]
    /\ UNCHANGED <<pc, req, store, pdf, epub, run>>

NextExtract == extract_local \/ extract_gemini

SpecExtract == InitExtract /\ [][NextExtract]_vars

\* ------------------------------------------------------------------ properties

\* <<0, 1, ..., n-1>>
Upto(n) == [i \in 1..n |-> i - 1]

\* The jobs that run process_pdf and got past pdfplumber.open.
PdfOpened(j) == req[j].file_type = "pdf" /\ pdf[j].src_pages >= 0

\* C1: process_pdf extracts exactly the page indices 0..N-1, N = min(pages in
\* the source, page_count), each once and in increasing order: what it has
\* attempted is always a prefix of 0..N-1, and once the loop is left, whatever
\* failed on the way, all N have been attempted and the procedure has
\* returned its result.
C1_PagesInOrder ==
    \A j \in AllJobs :
        PdfOpened(j) =>
            LET N == IF pdf[j].src_pages < req[j].page_count
                     THEN pdf[j].src_pages ELSE req[j].page_count
            IN  /\ Len(pdf[j].attempts) <= N
                /\ pdf[j].attempts = Upto(Len(pdf[j].attempts))
                /\ pc[j] # "pdf_loop" =>
                      /\ Len(pdf[j].attempts) = N
                      /\ run[j].result = [success |-> TRUE, pageCount |-> N]

\* C1 witness: a two-page ingestion returned after the embedding of its
\* first page failed (the page is stored without one) and its second page
\* was inserted.
C1_Witness ==
    \E j \in AllJobs :
        /\ PdfOpened(j)
        /\ pc[j] = "summary"
        /\ pdf[j].attempts = <<0, 1>>
        /\ \E i \in 1..Len(store) :
              /\ store[i].book_id = req[j].book_id
              /\ store[i].page_number = 1
              /\ store[i].text.src \in {"layer", "ocr", "vision"}
              /\ store[i].embedding = "NULL"
        /\ pdf[j].last.page_num = 1
        /\ pdf[j].last.insert_ok

\* The page that worker j's last loop iteration handled is blank.
LastBlank(j) == pdf[j].last.text = None \/ pdf[j].last.text.core = 0

\* C2: a page whose extracted text is empty after trimming gets no embedding
\* request and no insert, and leaves the table as it was; a record is
\* inserted only for a page with non-blank text, with page_number =
\* page index + 1.
C2_BlankPagesSkipped ==
    /\ [](\A j \in AllJobs :
            pdf[j].last.page_num >= 0 =>
                /\ LastBlank(j) => /\ ~pdf[j].last.embed_requested
                                   /\ ~pdf[j].last.insert_requested
                                   /\ ~pdf[j].last.insert_ok
                /\ pdf[j].last.insert_ok =>
                      /\ ~LastBlank(j)
                      /\ \E i \in 1..Len(store) :
                            /\ store[i].book_id = req[j].book_id
                            /\ store[i].page_number = pdf[j].last.page_num + 1
                            /\ store[i].text = pdf[j].last.text)
    /\ [][\A j \in AllJobs :
            (pdf'[j].attempts # pdf[j].attempts /\ LastBlank(j)')
                => store' = store]_vars
    /\ [][store' # store /\ Len(store') > Len(store) =>
            \E j \in AllJobs :
                /\ pdf'[j].attempts # pdf[j].attempts
                /\ ~LastBlank(j)'
                /\ store'[Len(store')].page_number = pdf[j].page_num + 1]_vars

\* C2 witness: a blank page was skipped after an earlier page was stored.
C2_Witness ==
    \E j \in AllJobs :
        /\ pdf[j].last.page_num = 1
        /\ LastBlank(j)
        /\ \E i \in 1..Len(store) :
              store[i].book_id = req[j].book_id /\ store[i].text.src \in {"layer", "ocr", "vision"}

\* The text layer of the extractor's page is longer than 50 characters after
\* trimming.
LayerLong == /\ ~ex.layer.err
             /\ ex.layer.val # None
             /\ ex.layer.val.core > MinTextLen

\* C3 as stated: without the vision model, local OCR runs 0 times on a page
\* whose trimmed text layer is longer than 50 characters and exactly once on
\* every other page, also when rasterizing fails or yields no image.
C3_OcrOncePerPoorPage ==
    (ex.phase = "returned" /\ ~ex.use_gemini) =>
        ex.out.ocr_calls = IF LayerLong THEN 0 ELSE 1

\* C3 amended: local OCR runs 0 times on a page whose trimmed text layer is
\* longer than 50 characters; on every other page the page is rasterized
\* once, and OCR runs once when that yields an image and not at all when it
\* raises or yields no image.
C3_OcrOncePerImage ==
    (ex.phase = "returned" /\ ~ex.use_gemini) =>
        /\ ex.out.raster_calls = IF LayerLong THEN 0 ELSE 1
        /\ ex.out.ocr_calls = IF ~LayerLong /\ ex.raster = "image" THEN 1 ELSE 0

\* C3 witness: a text layer of exactly 50 trimmed characters inside a longer
\* padded string sent the page to the rasterizer, which gave no image, and
\* OCR did not run.
C3_Witness ==
    /\ ex.phase = "returned"
    /\ ~ex.use_gemini
    /\ ~ex.layer.err
    /\ ex.layer.val.core = MinTextLen
    /\ StrLen(ex.layer.val) > MinTextLen
    /\ ex.raster = "empty"
    /\ ex.out.raster_calls = 1
    /\ ex.out.ocr_calls = 0

\* What local OCR produced for the extractor's page: nothing when the page
\* could not be rasterized or OCR raised.
OcrProduced == IF ex.raster = "image" /\ ~ex.ocr.err THEN ex.ocr.val ELSE EmptyStr

\* What the text layer gave: nothing when extraction raised or returned None.
LayerGave == IF ex.layer.err \/ ex.layer.val = None THEN EmptyStr ELSE ex.layer.val

\* s without its surrounding whitespace.
Trimmed(s) == IF s.core = 0 THEN EmptyStr ELSE [s EXCEPT !.lead = 0, !.trail = 0]

\* C10 as stated: when the text layer is poor the extractor returns exactly
\* what OCR produced, trimmed, and so the empty string when OCR produced
\* nothing.
C10_ReturnsOcrText ==
    (ex.phase = "returned" /\ ~ex.use_gemini /\ ~LayerLong) =>
        ex.out.text = Trimmed(OcrProduced)

\* C10 amended: when the text layer is poor the extractor returns what OCR
\* produced, trimmed, if that is non-blank, and otherwise the trimmed
\* text-layer string, which is empty only when the text layer was blank or
\* failed.
C10_ReturnsOcrOrLayerText ==
    (ex.phase = "returned" /\ ~ex.use_gemini /\ ~LayerLong) =>
        ex.out.text = IF Trimmed(OcrProduced) # EmptyStr
                      THEN Trimmed(OcrProduced)
                      ELSE Trimmed(LayerGave)

\* C10 witness: OCR read nothing on a page with a short text layer, and the
\* short text layer came back.
C10_Witness ==
    /\ ex.phase = "returned"
    /\ ~ex.use_gemini
    /\ ~LayerLong
    /\ ex.raster = "image"
    /\ ~ex.ocr.err
    /\ ex.ocr.val = EmptyStr
    /\ ex.out.text.src = "layer"

\* Worker j was started with a callback URL.
StartedWithCallback(j) == pc[j] \notin {"idle", "rejected"} /\ req[j].callback_url # ""

\* Worker j has attempted exactly one POST: "completed" with the ingestion
\* result when nothing raised, "error" with the exception's message otherwise.
Notified(j) ==
    /\ Len(run[j].posts) = 1
    /\ IF run[j].exc = ""
       THEN /\ run[j].posts[1].status = "completed"
            /\ run[j].posts[1].result = run[j].result
            /\ run[j].result # NoResult
       ELSE /\ run[j].posts[1].status = "error"
            /\ run[j].posts[1].message = <<run[j].exc>>

\* C4: every job started with a callback URL ends, and ends having attempted
\* exactly one POST, "completed" if and only if neither the ingestion nor the
\* summary step raised and "error" otherwise; no job ever attempts two.
C4_OneNotification ==
    /\ \A j \in Jobs : StartedWithCallback(j) ~> (pc[j] = "done" /\ Notified(j))
    /\ [](\A j \in AllJobs :
            /\ Len(run[j].posts) <= 1
            /\ (pc[j] = "done" /\ req[j].callback_url # "") => Notified(j))

\* C4 witness: a job whose library query raised after a successful ingestion
\* ended with one "error" POST.
C4_Witness ==
    \E j \in AllJobs :
        /\ pc[j] = "done"
        /\ req[j].callback_url # ""
        /\ run[j].result.success
        /\ run[j].summary = "raised"
        /\ Len(run[j].posts) = 1
        /\ run[j].posts[1].status = "error"

\* C5 as stated: a store update that fails inside the backfill loop is
\* swallowed: the procedure does not raise and the loop goes on to the
\* remaining records.
C5_UpdateFailureSwallowed ==
    \A j \in AllJobs :
        epub[j].update_failed => /\ run[j].exc = ""
                                 /\ pc[j] # "except"

\* C6 as stated: an exception anywhere in ingestion or summary generation,
\* also one raised inside the summary generation itself, fails the job: it
\* never posts "completed".
C6_SummaryFailureFailsJob ==
    \A j \in AllJobs :
        run[j].summary \in {"raised", "caught"} =>
            \A i \in 1..Len(run[j].posts) : run[j].posts[i].status # "completed"

\* C7 as stated: a callback POST that cannot be delivered, "completed" or
\* "error", is logged only: no exception leaves the worker and no second POST
\* is attempted.
C7_DeliveryFailureLoggedOnly ==
    \A j \in AllJobs :
        (\E i \in 1..Len(run[j].posts) : ~run[j].posts[i].delivered) =>
            /\ ~run[j].escaped
            /\ Len(run[j].posts) = 1

\* The ids of the book's records whose text is non-empty after trimming, in
\* the table's order.
WithText(book_id) ==
    LET rows == SelectSeq(store, LAMBDA r : /\ r.book_id = book_id
                                            /\ r.text # None
                                            /\ r.text.core > 0)
    IN  [i \in 1..Len(rows) |-> rows[i].id]

\* Worker j ran the backfill and its select and updates all succeeded.
BackfillRan(j) ==
    /\ req[j].file_type = "epub"
    /\ pc[j] \in {"summary", "webhook", "except", "done"}
    /\ run[j].exc # "select failed"
    /\ ~epub[j].update_failed

\* C8: when the store's select and updates succeed, the backfill returns
\* without raising, has made one embedding call and one update for each of
\* the book's records with non-blank text and none for any other record, and
\* returns pageCount = the number of those records (0 for no records).
C8_BackfillCounts ==
    \A j \in AllJobs :
        BackfillRan(j) =>
            /\ run[j].result # NoResult
            /\ epub[j].embed_calls = WithText(req[j].book_id)
            /\ epub[j].updates = WithText(req[j].book_id)
            /\ run[j].result.pageCount = Len(WithText(req[j].book_id))

\* C8 witness: a backfill over two records, one of them blank, returned
\* pageCount 1.
C8_Witness ==
    \E j \in AllJobs :
        /\ BackfillRan(j)
        /\ Len(epub[j].data) = 2
        /\ run[j].result = [success |-> TRUE, pageCount |-> 1]

\* C9: whatever the jobs do and however their steps interleave, no record
\* is deleted and an existing record keeps its id, book_id, page_number and
\* text: only its embedding can change.
C9_WriteOnceThenUpdate ==
    [][/\ Len(store') >= Len(store)
       /\ \A i \in 1..Len(store) :
            /\ store'[i].id = store[i].id
            /\ store'[i].book_id = store[i].book_id
            /\ store'[i].page_number = store[i].page_number
            /\ store'[i].text = store[i].text]_vars

\* C9 witness: while a PDF ingestion and a backfill of the same book are both
\* under way, a record the ingestion inserted has had its embedding replaced
\* by the backfill.
C9_Witness ==
    \E a \in AllJobs, b \in AllJobs :
        /\ req[a].file_type = "pdf"
        /\ pc[a] \in {"pdf_loop", "summary", "webhook"}
        /\ req[b].file_type = "epub"
        /\ pc[b] = "epub_loop"
        /\ \E i \in 1..Len(store) :
              /\ store[i].text.src = "vision"
              /\ store[i].embedding = "gemini_vec"

\* C11 as stated: an embedding is null only until it has been computed: once
\* a record holds a non-null embedding, no step of any job sets it back to
\* null (in particular not a backfill iteration whose generate_embedding
\* returned null for the record).
C11_EmbeddingNeverUnset ==
    [][\A i \in 1..Len(store) :
            store[i].embedding # "NULL" => store'[i].embedding # "NULL"]_vars

====
